---------------------------- MODULE Spec2Model ----------------------------
(***************************************************************************)
(* 1-D elastic dislocation slip-rate inversion                              *)
(* (ex01_1D_slip_rate_inversion_gnss.ipynb).                                *)
(*                                                                          *)
(* The notebook is a linear script: each code cell is one action, the       *)
(* notebook's global names are the variables.  Floating-point values are    *)
(* modelled as exact rationals extended with nan / inf / -inf, which are    *)
(* the values numpy produces on division by zero and on empty means.        *)
(* Angles are kept in a unit in which np.pi is 180 and np.arctan is         *)
(* quantised to whole units.                                                *)
(***************************************************************************)
EXTENDS Integers, Sequences, FiniteSets, TLC

(***************************************************************************)
(* Bounds of the model                                                      *)
(***************************************************************************)
MaxStations == 2
MaxSpan == 2

(***************************************************************************)
(* Floating-point values: [k, n, d] with k in fin / nan / inf / ninf        *)
(***************************************************************************)
Abs(a) == IF a < 0 THEN -a ELSE a

RECURSIVE GCD(_, _)
GCD(a, b) == IF b = 0 THEN a ELSE GCD(b, a % b)

LCM(a, b) == (a \div GCD(a, b)) * b

Fin(n, d) ==
    LET sg == IF d < 0 THEN -1 ELSE 1
        g  == GCD(Abs(n), Abs(d))
    IN  [k |-> "fin", n |-> (sg * n) \div g, d |-> (sg * d) \div g]

F(a) == [k |-> "fin", n |-> a, d |-> 1]

NaN == [k |-> "nan", n |-> 0, d |-> 1]

PInf == [k |-> "inf", n |-> 0, d |-> 1]

NInf == [k |-> "ninf", n |-> 0, d |-> 1]

None == [k |-> "none", n |-> 0, d |-> 1]

IsFin(a) == a.k = "fin"

IsNaN(a) == a.k = "nan"

Sign(a) ==
    CASE a.k = "inf" -> 1
      [] a.k = "ninf" -> -1
      [] a.k = "fin" -> (IF a.n > 0 THEN 1 ELSE IF a.n < 0 THEN -1 ELSE 0)
      [] OTHER -> 0

FNeg(a) ==
    CASE a.k = "fin" -> [a EXCEPT !.n = -a.n]
      [] a.k = "inf" -> NInf
      [] a.k = "ninf" -> PInf
      [] OTHER -> a

FAbs(a) == IF Sign(a) < 0 THEN FNeg(a) ELSE a

FAdd(a, b) ==
    IF IsFin(a) /\ IsFin(b)
    THEN LET l == LCM(a.d, b.d)
         IN  Fin(a.n * (l \div a.d) + b.n * (l \div b.d), l)
    ELSE IF IsNaN(a) \/ IsNaN(b) THEN NaN
    ELSE IF IsFin(a) THEN b
    ELSE IF IsFin(b) THEN a
    ELSE IF a.k = b.k THEN a ELSE NaN

FSub(a, b) == FAdd(a, FNeg(b))

FMul(a, b) ==
    IF IsFin(a) /\ IsFin(b)
    THEN LET g1 == GCD(Abs(a.n), b.d)
             g2 == GCD(Abs(b.n), a.d)
         IN  Fin((a.n \div g1) * (b.n \div g2), (a.d \div g2) * (b.d \div g1))
    ELSE IF IsNaN(a) \/ IsNaN(b) THEN NaN
    ELSE IF Sign(a) * Sign(b) > 0 THEN PInf
    ELSE IF Sign(a) * Sign(b) < 0 THEN NInf
    ELSE NaN

\* numpy true division: x/0 is inf, -inf or nan (with a RuntimeWarning only)
FDiv(a, b) ==
    IF IsFin(a) /\ IsFin(b)
    THEN IF b.n # 0 THEN FMul(a, Fin(b.d, b.n))
         ELSE IF a.n > 0 THEN PInf
         ELSE IF a.n < 0 THEN NInf
         ELSE NaN
    ELSE IF IsNaN(a) \/ IsNaN(b) THEN NaN
    ELSE IF IsFin(b) THEN (IF Sign(b) >= 0 THEN a ELSE FNeg(a))
    ELSE IF IsFin(a) THEN F(0)
    ELSE NaN

FSq(a) == FMul(a, a)

\* IEEE comparisons: any comparison with nan is false
FEq(a, b) ==
    /\ ~IsNaN(a)
    /\ ~IsNaN(b)
    /\ a = b

FLt(a, b) ==
    IF IsFin(a) /\ IsFin(b)
    THEN LET l == LCM(a.d, b.d)
         IN  a.n * (l \div a.d) < b.n * (l \div b.d)
    ELSE /\ ~IsNaN(a)
         /\ ~IsNaN(b)
         /\ Sign(a) < Sign(b)
         /\ a.k # b.k

FLe(a, b) == FLt(a, b) \/ FEq(a, b)

(***************************************************************************)
(* numpy / Python library functions used by the notebook                    *)
(***************************************************************************)
NpPi == F(180)

\* round-to-nearest whole angle unit of a non-negative rational num/den
RoundHalfUp(num, den) == (2 * num + den) \div (2 * den)

\* arctan of p/q with 0 <= p <= q, in whole units (pi = 180):
\* atan(r) ~ r * (45 + 15.64 * (1 - r))
ArctanUnit(p, q) == RoundHalfUp(p * (1125 * q + 391 * (q - p)), 25 * q * q)

\* slip: the sign of the argument dropped
NpArctanOfMagnitude(a) ==
    CASE a.k \in {"inf", "ninf"} -> F(90)
      [] a.k = "fin" ->
            LET p == Abs(a.n)
                q == a.d
            IN  F(IF p <= q THEN ArctanUnit(p, q) ELSE 90 - ArctanUnit(q, p))
      [] OTHER -> NaN

\* np.arctan, in whole units (pi = 180)
NpArctan(a) ==
    CASE a.k = "inf" -> F(90)
      [] a.k = "ninf" -> F(-90)
      [] a.k = "fin" ->
            LET p == Abs(a.n)
                q == a.d
                u == IF p <= q THEN ArctanUnit(p, q) ELSE 90 - ArctanUnit(q, p)
            IN  F(Sign(a) * u)
      [] OTHER -> NaN

RECURSIVE SeqSum(_)
SeqSum(sq) == IF Len(sq) = 0 THEN F(0) ELSE FAdd(sq[1], SeqSum(Tail(sq)))

\* slip: the first element taken for the mean
NpFirst(sq) == IF Len(sq) = 0 THEN NaN ELSE sq[1]

\* np.mean: the mean of an empty array is nan (RuntimeWarning only)
NpMean(sq) == FDiv(SeqSum(sq), F(Len(sq)))

\* Python round() of a rational: round half to even
PyRound(a) ==
    LET q == a.n \div a.d
        r == a.n % a.d
    IN  IF 2 * r < a.d THEN q
        ELSE IF 2 * r > a.d THEN q + 1
        ELSE IF q % 2 = 0 THEN q ELSE q + 1

\* np.linspace(a, b, n) for n >= 0
NpLinspace(a, b, n) ==
    IF n = 1 THEN << a >>
    ELSE [kk \in 1..n |-> FAdd(a, FMul(F(kk - 1), FDiv(FSub(b, a), F(n - 1))))]

(***************************************************************************)
(* Pure helpers of the inversion cells                                      *)
(***************************************************************************)
VecSub(a, b) == [kk \in 1..Len(a) |-> FSub(a[kk], b[kk])]

VecSubScalar(a, c) == [kk \in 1..Len(a) |-> FSub(a[kk], c)]

VecAddScalar(a, c) == [kk \in 1..Len(a) |-> FAdd(a[kk], c)]

\* np.diag(w): square matrix with w on the diagonal, 0 elsewhere
NpDiag(w) == [m \in 1..Len(w) |-> [kk \in 1..Len(w) |-> IF m = kk THEN w[m] ELSE F(0)]]

\* np.matmul(vector, matrix)
VecMat(r, M) == [kk \in 1..Len(r) |-> SeqSum([m \in 1..Len(r) |-> FMul(r[m], M[m][kk])])]

\* np.matmul(vector, vector.T): the dot product (0.0 for empty vectors)
Dot(a, b) == SeqSum([kk \in 1..Len(a) |-> FMul(a[kk], b[kk])])

\* the weight matrix the notebook passes to matmul: np.diag(v_err**2)
WeightMatrix(verr) == NpDiag([kk \in 1..Len(verr) |-> FSq(verr[kk])])

\* slip: the second product sums the weighted residuals instead of
\* multiplying them by the residual vector again
PenaltyUnsquared(resid, verr) == SeqSum(VecMat(resid, WeightMatrix(verr)))

\* np.matmul(np.matmul(resid, np.diag(v_err**2)), resid.T)
Penalty(resid, verr) == Dot(VecMat(resid, WeightMatrix(verr)), resid)

\* (s/np.pi)*np.arctan(x_data/D), elementwise
ForwardModel(xs, s, D) ==
    [kk \in 1..Len(xs) |-> FMul(FDiv(s, NpPi), NpArctan(FDiv(xs[kk], D)))]

(***************************************************************************)
(* State: the notebook's global names and the position in the script        *)
(***************************************************************************)
VARIABLES pc, err, x_data, v_data, v_err, s, D, v_forward, v_shift, WRSS,
          s_min, s_max, s_step, D_min, D_max, D_step,
          n_s, n_D, s_set, D_set, sv, Dv, i, j,
          WRSS_best, best_model, s_best, D_best, v_best, v_shift_best

\* names bound by the fault, box and projection cells
VARIABLES fault_vertex_utm1, fault_vertex_utm2, fault_dx, fault_dy, fault_length,
          fault_strike, half_length, prof_dx, prof_dy, box_vertices_utm,
          prof_vertices_utm, selected_gnss, selected_gnss_utm, profile_origin_utm,
          gnss_position, prof_uv, fault_uv

\* the outputs of a first run of the grid search, kept for comparison with a rerun
VARIABLES first_run

faultVars == << fault_vertex_utm1, fault_vertex_utm2, fault_dx, fault_dy, fault_length,
                fault_strike >>

boxVars == << half_length, prof_dx, prof_dy, box_vertices_utm, prof_vertices_utm >>

projVars == << selected_gnss_utm, profile_origin_utm, gnss_position, prof_uv >>

geomVars == << faultVars, boxVars, selected_gnss, projVars, fault_uv >>

vars == << pc, err, x_data, v_data, v_err, s, D, v_forward, v_shift, WRSS,
           s_min, s_max, s_step, D_min, D_max, D_step,
           n_s, n_D, s_set, D_set, sv, Dv, i, j,
           WRSS_best, best_model, s_best, D_best, v_best, v_shift_best, geomVars,
           first_run >>

obsVars == << x_data, v_data, v_err >>

cfgVars == << s_min, s_max, s_step, D_min, D_max, D_step >>

gridVars == << n_s, n_D, s_set, D_set, sv, Dv >>

bestVars == << s_best, D_best, v_best, v_shift_best >>

SeqsOf(S, n) == [1..n -> S]

\* along-profile distances (km) and fault-parallel velocities (mm/yr) of the
\* stations, and the two shapes of the error array: equal errors, or errors
\* alternating between 2 and 1
XValues == {F(-1), F(0), F(1)}

VValues == {F(0), F(1)}

ErrPatterns == {"equal", "unequal"}

ErrPattern(p, kk) == IF p = "equal" THEN F(1) ELSE F(1 + (kk % 2))

\* the names of the geometry cells, which the inversion cells never read
GeomUnset ==
    /\ fault_vertex_utm1 = << >> /\ fault_vertex_utm2 = << >>
    /\ fault_dx = None /\ fault_dy = None /\ fault_length = None
    /\ fault_strike = None
    /\ half_length = None
    /\ prof_dx = None /\ prof_dy = None
    /\ box_vertices_utm = << >>
    /\ prof_vertices_utm = << >>
    /\ selected_gnss_utm = << >>
    /\ profile_origin_utm = << >>
    /\ gnss_position = << >>
    /\ prof_uv = << >>
    /\ fault_uv = << >>

\* names not yet bound by any inversion cell
InversionUnset ==
    /\ err = "none"
    /\ s = None /\ D = None
    /\ v_forward = << >>
    /\ v_shift = None
    /\ WRSS = None
    /\ s_min = None /\ s_max = None /\ s_step = None
    /\ D_min = None /\ D_max = None /\ D_step = None
    /\ n_s = 0 /\ n_D = 0
    /\ s_set = << >> /\ D_set = << >>
    /\ sv = << >> /\ Dv = << >>
    /\ i = 0 /\ j = 0
    /\ WRSS_best = None
    /\ best_model = << >>
    /\ first_run = << >>
    /\ s_best = None /\ D_best = None
    /\ v_best = << >>
    /\ v_shift_best = None

\* rank of station kk's (distance, velocity) pair; the file order of the
\* stations is arbitrary, the model lists them by non-decreasing rank
StationRank(xs, vs, kk) == 2 * xs[kk].n + vs[kk].n

\* x_data, v_data, v_err as left by the projection cells: three parallel arrays
InitObservations ==
    \E n \in 0..MaxStations :
       /\ x_data \in SeqsOf(XValues, n)
       /\ v_data \in SeqsOf(VValues, n)
       /\ \E p \in ErrPatterns : v_err = [kk \in 1..n |-> ErrPattern(p, kk)]
       /\ \A kk \in 1..(n - 1) :
             StationRank(x_data, v_data, kk) <= StationRank(x_data, v_data, kk + 1)

\* the inversion cells start from the three observation arrays
InitRest ==
    /\ pc = "trial"
    /\ InversionUnset
    /\ GeomUnset
    /\ selected_gnss = << >>

Init ==
    /\ InitObservations
    /\ InitRest

(***************************************************************************)
(* Trial-and-error cell: forward model with shift and its WRSS penalty      *)
(***************************************************************************)
\* parameter values the user tries in the trial-and-error cell
TrialS == {1, 2, 4}

TrialD == {0, 1, 2}

TrialShift == {-1, 0, 1}

TrialAndError(ts, tD, tshift) ==
    /\ pc = "trial"
    /\ s' = F(ts)
    /\ D' = F(tD)
    /\ v_shift' = F(tshift)
    /\ v_forward' = VecAddScalar(ForwardModel(x_data, s', D'), v_shift')
    /\ WRSS' = Penalty(VecSub(v_data, v_forward'), v_err)
    /\ pc' = "record"
    /\ UNCHANGED << err, obsVars, cfgVars, gridVars, i, j, WRSS_best, best_model, bestVars, geomVars, first_run >>

(***************************************************************************)
(* "best trial-and-error model" cell                                        *)
(***************************************************************************)
RecordBestTrial ==
    /\ pc = "record"
    /\ s_best' = F(33)
    /\ D_best' = F(14)
    /\ v_shift_best' = Fin(-59, 2)
    /\ v_best' = VecAddScalar(ForwardModel(x_data, s_best', D_best'), v_shift_best')
    /\ WRSS_best' = Penalty(VecSub(v_data, v_best'), v_err)
    /\ pc' = "setup"
    /\ UNCHANGED << err, obsVars, s, D, v_forward, v_shift, WRSS, cfgVars, gridVars, i, j, best_model, geomVars, first_run >>

(***************************************************************************)
(* Grid-search cell, first half: parameter ranges, grids, result array      *)
(***************************************************************************)
\* round(1+(max-min)/step) of the Python scalars; the caller excludes step = 0
NumValues(lo, hi, step) == PyRound(FAdd(F(1), FDiv(FSub(F(hi), F(lo)), F(step))))

\* np.meshgrid(s_set, D_set): both results have shape (n_D, n_s)
MeshS(sset, dset) == [r \in 1..Len(dset) |-> [c \in 1..Len(sset) |-> sset[c]]]

MeshD(sset, dset) == [r \in 1..Len(dset) |-> [c \in 1..Len(sset) |-> dset[r]]]

\* np.zeros(np.shape(sv))
NpZeros(rows, cols) == [r \in 1..rows |-> [c \in 1..cols |-> F(0)]]

SMinValues == {1}

DMinValues == {0, 1}

SStepValues == {1, 2}

DStepValues == {-1, 0, 1, 3}

GridSetup(smin, smax, sstep, dmin, dmax, dstep) ==
    /\ pc = "setup"
    /\ s_min' = F(smin) /\ s_max' = F(smax) /\ s_step' = F(sstep)
    /\ D_min' = F(dmin) /\ D_max' = F(dmax) /\ D_step' = F(dstep)
    /\ LET ns   == NumValues(smin, smax, sstep)
           sset == NpLinspace(F(smin), F(smax), ns)
           nd   == NumValues(dmin, dmax, dstep)
           dset == NpLinspace(F(dmin), F(dmax), nd)
       IN  IF sstep = 0
           THEN \* ZeroDivisionError in the n_s line
                /\ pc' = "error" /\ err' = "ZeroDivisionError"
                /\ UNCHANGED << gridVars, WRSS, i, j >>
           ELSE IF ns < 0
           THEN \* np.linspace rejects a negative number of samples
                /\ pc' = "error" /\ err' = "ValueError"
                /\ n_s' = ns
                /\ UNCHANGED << n_D, s_set, D_set, sv, Dv, WRSS, i, j >>
           ELSE IF dstep = 0
           THEN \* ZeroDivisionError in the n_D line
                /\ pc' = "error" /\ err' = "ZeroDivisionError"
                /\ n_s' = ns /\ s_set' = sset
                /\ UNCHANGED << n_D, D_set, sv, Dv, WRSS, i, j >>
           ELSE IF nd < 0
           THEN /\ pc' = "error" /\ err' = "ValueError"
                /\ n_s' = ns /\ s_set' = sset /\ n_D' = nd
                /\ UNCHANGED << D_set, sv, Dv, WRSS, i, j >>
           ELSE /\ n_s' = ns /\ s_set' = sset
                /\ n_D' = nd /\ D_set' = dset
                /\ sv' = MeshS(sset, dset)
                /\ Dv' = MeshD(sset, dset)
                /\ WRSS' = NpZeros(nd, ns)
                /\ i' = 1 /\ j' = 1
                /\ pc' = IF nd = 0 \/ ns = 0 THEN "select" ELSE "loop"
                /\ err' = err
    /\ UNCHANGED << obsVars, s, D, v_forward, v_shift, WRSS_best, best_model, bestVars, geomVars, first_run >>

(***************************************************************************)
(* Grid-search cell, second half: one iteration of the nested loop          *)
(***************************************************************************)
\* slip: no offset removed
MeanShiftOmitted(vdata, vf) == F(0)

\* np.mean(v_data-v_forward): the offset the loop removes
MeanShift(vdata, vf) == NpMean(VecSub(vdata, vf))

\* slip: the penalty taken with the offset the previous evaluation left in v_shift
CellPenaltyWithStaleShift(vdata, vf, sh, verr) ==
    Penalty(VecSubScalar(VecSub(vdata, vf), v_shift), verr)

\* WRSS[i,j] as the loop body computes it
CellPenalty(vdata, vf, sh, verr) == Penalty(VecSubScalar(VecSub(vdata, vf), sh), verr)

\* slip: the outer loop left after the first row
GridCellFirstRowOnly ==
    /\ pc = "loop"
    /\ v_forward' = ForwardModel(x_data, sv[i][j], Dv[i][j])
    /\ v_shift' = MeanShift(v_data, v_forward')
    /\ WRSS' = [WRSS EXCEPT ![i][j] = CellPenalty(v_data, v_forward', v_shift', v_err)]
    /\ IF j < n_s
       THEN /\ j' = j + 1 /\ i' = i /\ pc' = "loop"
       ELSE /\ j' = j /\ i' = i /\ pc' = "select"
    /\ UNCHANGED << err, obsVars, s, D, cfgVars, gridVars, WRSS_best, best_model, bestVars, geomVars, first_run >>

GridCell ==
    /\ pc = "loop"
    /\ v_forward' = ForwardModel(x_data, sv[i][j], Dv[i][j])
    /\ v_shift' = MeanShift(v_data, v_forward')
    /\ WRSS' = [WRSS EXCEPT ![i][j] = CellPenalty(v_data, v_forward', v_shift', v_err)]
    /\ IF j < n_s
       THEN /\ j' = j + 1 /\ i' = i /\ pc' = "loop"
       ELSE IF i < n_D
       THEN /\ j' = 1 /\ i' = i + 1 /\ pc' = "loop"
       ELSE /\ j' = j /\ i' = i /\ pc' = "select"
    /\ UNCHANGED << err, obsVars, s, D, cfgVars, gridVars, WRSS_best, best_model, bestVars, geomVars, first_run >>

(***************************************************************************)
(* "what was the best model?" cell                                          *)
(***************************************************************************)
\* row-major list of the index pairs of an array of the given shape
CellIndex(rows, cols) ==
    [kk \in 1..(rows * cols) |-> << ((kk - 1) \div cols) + 1, ((kk - 1) % cols) + 1 >>]

\* the array flattened in row-major order
Flatten(M, rows, cols) ==
    [kk \in 1..(rows * cols) |-> M[CellIndex(rows, cols)[kk][1]][CellIndex(rows, cols)[kk][2]]]

\* slip: np.amax in place of np.amin
RECURSIVE NpAmax(_)
NpAmax(sq) ==
    IF Len(sq) = 1 THEN sq[1]
    ELSE LET m == NpAmax(Tail(sq))
         IN  IF IsNaN(sq[1]) \/ IsNaN(m) THEN NaN
             ELSE IF FLe(m, sq[1]) THEN sq[1] ELSE m

\* np.amin of a non-empty array: nan if any entry is nan
RECURSIVE NpAmin(_)
NpAmin(sq) ==
    IF Len(sq) = 1 THEN sq[1]
    ELSE LET m == NpAmin(Tail(sq))
         IN  IF IsNaN(sq[1]) \/ IsNaN(m) THEN NaN
             ELSE IF FLe(sq[1], m) THEN sq[1] ELSE m

\* np.where(M == value): the matching index pairs, in row-major order
NpWhereEq(M, rows, cols, value) ==
    LET Match(ix) == FEq(M[ix[1]][ix[2]], value)
    IN  SelectSeq(CellIndex(rows, cols), Match)

SelectBest ==
    /\ pc = "select"
    /\ IF n_D * n_s = 0
       THEN \* np.amin of a zero-size array raises
            /\ pc' = "error" /\ err' = "ValueError"
            /\ UNCHANGED << WRSS_best, best_model, bestVars >>
       ELSE /\ WRSS_best' = NpAmin(Flatten(WRSS, n_D, n_s))
            /\ best_model' = NpWhereEq(WRSS, n_D, n_s, WRSS_best')
            /\ IF Len(best_model') # 1
               THEN \* .item() needs an array of exactly one element
                    /\ pc' = "error" /\ err' = "ValueError"
                    /\ UNCHANGED bestVars
               ELSE /\ s_best' = sv[best_model'[1][1]][best_model'[1][2]]
                    /\ D_best' = Dv[best_model'[1][1]][best_model'[1][2]]
                    /\ v_best' = ForwardModel(x_data, s_best', D_best')
                    /\ v_shift_best' = MeanShift(v_data, v_best')
                    /\ pc' = "done" /\ err' = err
    /\ UNCHANGED << obsVars, s, D, v_forward, v_shift, WRSS, cfgVars, gridVars, i, j, geomVars, first_run >>

\* the inversion as the notebook runs it: the trial cell as written
\* (s = 10, D = 15, v_shift = -25), then the grid search
Next ==
    \/ TrialAndError(10, 15, -25)
    \/ RecordBestTrial
    \/ \E smin \in SMinValues, sspan \in 0..MaxSpan, sstep \in SStepValues,
          dmin \in DMinValues, dspan \in 0..MaxSpan, dstep \in DStepValues :
          GridSetup(smin, smin + sspan, sstep, dmin, dmin + dspan, dstep)
    \/ GridCell
    \/ SelectBest

Spec == Init /\ [][Next]_vars

\* the trial-and-error cells with the parameters the user plays with
NextTrial ==
    \/ \E ts \in TrialS, tD \in TrialD, tshift \in TrialShift : TrialAndError(ts, tD, tshift)
    \/ RecordBestTrial

SpecTrial == Init /\ [][NextTrial]_vars

(***************************************************************************)
(* The grid-search and best-model cells run a second time, in the state the *)
(* first run left, on the same observations and parameter ranges            *)
(***************************************************************************)
\* what a run of the two cells reports
RunOutputs ==
    [WRSS |-> WRSS, WRSS_best |-> WRSS_best, best_model |-> best_model,
     s_best |-> s_best, D_best |-> D_best, v_shift_best |-> v_shift_best,
     outcome |-> << pc, err >>]

RunFinished == pc \in {"done", "error"}

\* the user goes back to the grid-search cell
RunAgain ==
    /\ RunFinished
    /\ first_run = << >>
    /\ first_run' = RunOutputs
    /\ pc' = "setup"
    /\ err' = "none"
    /\ UNCHANGED << obsVars, s, D, v_forward, v_shift, WRSS, cfgVars, gridVars, i, j,
                    WRSS_best, best_model, bestVars, geomVars >>

\* the parameter ranges typed into the cell are those of the first run
SameRanges(smin, smax, sstep, dmin, dmax, dstep) ==
    first_run # << >> =>
        << F(smin), F(smax), F(sstep), F(dmin), F(dmax), F(dstep) >> = cfgVars

NextRerun ==
    \/ TrialAndError(10, 15, -25)
    \/ RecordBestTrial
    \/ \E smin \in SMinValues, sspan \in 0..MaxSpan, sstep \in SStepValues,
          dmin \in DMinValues, dspan \in 0..MaxSpan, dstep \in DStepValues :
          /\ SameRanges(smin, smin + sspan, sstep, dmin, dmin + dspan, dstep)
          /\ GridSetup(smin, smin + sspan, sstep, dmin, dmin + dspan, dstep)
    \/ GridCell
    \/ SelectBest
    \/ RunAgain

\* a full set of stations at distinct distances, with unequal errors
InitRerun ==
    /\ Init
    /\ Len(x_data) = MaxStations
    /\ \A kk \in 1..(MaxStations - 1) : FLt(x_data[kk], x_data[kk + 1])
    /\ v_err = [kk \in 1..MaxStations |-> ErrPattern("unequal", kk)]

SpecRerun == InitRerun /\ [][NextRerun]_vars

(***************************************************************************)
(* The loop body evaluated a second time in another order, by workers that  *)
(* keep v_forward and v_shift to themselves and share only WRSS             *)
(***************************************************************************)
Orders == {"columns", "reverse"}

\* the cell visited at step k (1..n_D*n_s) of an order
Visit(order, k) ==
    IF order = "columns"
    THEN << ((k - 1) % n_D) + 1, ((k - 1) \div n_D) + 1 >>
    ELSE CellIndex(n_D, n_s)[n_D * n_s + 1 - k]

\* after a first run whose loop ran, the surface is cleared for the workers
RunReordered(order) ==
    /\ RunFinished
    /\ first_run = << >>
    /\ n_D * n_s > 0
    /\ first_run' = RunOutputs
    /\ WRSS' = NpZeros(n_D, n_s)
    /\ i' = 1
    /\ pc' = order
    /\ err' = "none"
    /\ UNCHANGED << obsVars, s, D, v_forward, v_shift, cfgVars, gridVars, j,
                    WRSS_best, best_model, bestVars, geomVars >>

\* slip: the worker takes the offset from the shared name v_shift
WorkerPenaltyWithSharedShift(r, c) ==
    LET vf == ForwardModel(x_data, sv[r][c], Dv[r][c])
    IN  CellPenalty(v_data, vf, v_shift, v_err)

\* the loop body on cell (r, c) with temporaries of its own
WorkerPenalty(r, c) ==
    LET vf == ForwardModel(x_data, sv[r][c], Dv[r][c])
    IN  CellPenalty(v_data, vf, MeanShift(v_data, vf), v_err)

\* step i of the order: one worker evaluates its cell
ReorderedCell ==
    /\ pc \in Orders
    /\ LET cell == Visit(pc, i)
       IN  WRSS' = [WRSS EXCEPT ![cell[1]][cell[2]] = WorkerPenalty(cell[1], cell[2])]
    /\ IF i < n_D * n_s
       THEN i' = i + 1 /\ pc' = pc
       ELSE i' = n_D /\ pc' = "select"
    /\ UNCHANGED << err, obsVars, s, D, v_forward, v_shift, cfgVars, gridVars, j,
                    WRSS_best, best_model, bestVars, geomVars, first_run >>

NextReorder ==
    \/ Next
    \/ \E order \in Orders : RunReordered(order)
    \/ ReorderedCell

SpecReorder == InitRerun /\ [][NextReorder]_vars

\* weak fairness of the loop step, which is enabled exactly when pc = "loop":
\* the loop does not stop between two iterations
LoopRuns == []<>(pc # "loop") \/ []<><<GridCell>>_vars

\* weak fairness of the best-model cell, enabled exactly when pc = "select":
\* the cell after the loop is run
SelectionRuns == []<>(pc # "select") \/ []<><<SelectBest>>_vars

SpecLoop == InitRerun /\ [][Next]_vars /\ LoopRuns /\ SelectionRuns

(***************************************************************************)
(* Synthetic observations: the forward model at known parameters plus a     *)
(* constant offset, zero noise, at distinct distances                       *)
(***************************************************************************)
SynthStations == MaxStations + 1

SynthDistances == {F(-2), F(-1), F(0), F(1), F(2)}

SynthTruth == 1..(1 + MaxSpan)

SynthOffsets == {-1}

InitSynthetic ==
    /\ x_data \in SeqsOf(SynthDistances, SynthStations)
    /\ \A kk \in 1..(SynthStations - 1) : FLt(x_data[kk], x_data[kk + 1])
    /\ v_err = [kk \in 1..SynthStations |-> ErrPattern("unequal", kk)]
    /\ \E ts \in SynthTruth, tD \in SynthTruth, off \in SynthOffsets :
          v_data = VecAddScalar(ForwardModel(x_data, F(ts), F(tD)), F(off))
    /\ InitRest

SpecSynth == InitSynthetic /\ [][Next]_vars

(***************************************************************************)
(* Geometry cells: fault, selection box, projection of the stations         *)
(***************************************************************************)
\* largest r in lo..hi with r*r <= n
RECURSIVE ISqrtBetween(_, _, _)
ISqrtBetween(n, lo, hi) ==
    IF lo >= hi THEN lo
    ELSE LET mid == (lo + hi + 1) \div 2
         IN  IF mid * mid <= n THEN ISqrtBetween(n, mid, hi) ELSE ISqrtBetween(n, lo, mid - 1)

ISqrt(n) == ISqrtBetween(n, 0, 46340)

\* np.sqrt: exact on rational squares, otherwise rounded down to 1/100
NpSqrt(a) ==
    IF ~IsFin(a) \/ a.n < 0 THEN NaN
    ELSE IF ISqrt(a.n * a.d) * ISqrt(a.n * a.d) = a.n * a.d
    THEN Fin(ISqrt(a.n * a.d), a.d)
    ELSE Fin(ISqrt(a.n * a.d * 10000), a.d * 100)

\* an angle is kept by its unit and its (exact) sine and cosine
\* np.arctan2(y, x) for (y, x) # (0, 0)
NpArctan2(y, x) ==
    LET r == NpSqrt(FAdd(FSq(x), FSq(y)))
    IN  [unit |-> "rad", sin |-> FDiv(y, r), cos |-> FDiv(x, r)]

NpDegrees(a) == [a EXCEPT !.unit = "deg"]

NpRadians(a) == [a EXCEPT !.unit = "rad"]

\* slip: the profile direction taken along the strike (no quarter turn)
StrikeUnturned(a) == a

\* fault_strike-90, for an angle in degrees
StrikeMinus90(a) == [unit |-> a.unit, sin |-> FNeg(a.cos), cos |-> a.sin]

NpSin(a) == a.sin

NpCos(a) == a.cos

\* longitude of the central meridian of utm_zone = 11
CentralMeridian == -117

\* utm.from_latlon accepts latitudes in [-80, 84] and longitudes in [-180, 180]
UtmInRange(lat, lon) ==
    /\ FLe(F(-80), lat) /\ FLe(lat, F(84))
    /\ FLe(F(-180), lon) /\ FLe(lon, F(180))

\* utm.from_latlon(lat, lon, utm_zone, utm_lett): planar (easting, northing) in
\* metres in the frame of the zone; modelled as a linear map, 1000 m per degree
UtmFromLatLon(lat, lon) ==
    << FAdd(F(500000), FMul(F(1000), FSub(lon, F(CentralMeridian)))), FMul(F(1000), lat) >>

Dot2(a, b) == FAdd(FMul(a[1], b[1]), FMul(a[2], b[2]))

\* fault end points the user enters, [x1, y1], [x2, y2] in degrees
FaultVerticesLL ==
    { << << -119, 32 >>, << -116, 36 >> >>,
      << << -115, 35 >>, << -119, 32 >> >>,
      << << -119, 32 >>, << -114, 32 >> >>,
      << << -119, 32 >>, << -119, 37 >> >> }

FaultCell(fault_vertices_ll) ==
    /\ pc = "fault"
    /\ fault_vertex_utm1' = UtmFromLatLon(F(fault_vertices_ll[1][2]), F(fault_vertices_ll[1][1]))
    /\ fault_vertex_utm2' = UtmFromLatLon(F(fault_vertices_ll[2][2]), F(fault_vertices_ll[2][1]))
    /\ LET dx == FSub(fault_vertex_utm2'[1], fault_vertex_utm1'[1])
           dy == FSub(fault_vertex_utm2'[2], fault_vertex_utm1'[2])
       IN  /\ fault_length' = NpSqrt(FAdd(FSq(dx), FSq(dy)))
           /\ fault_dx' = FDiv(dx, fault_length')
           /\ fault_dy' = FDiv(dy, fault_length')
    /\ fault_strike' = NpDegrees(NpArctan2(fault_dx', fault_dy'))
    /\ pc' = "box"
    /\ UNCHANGED << err, obsVars, s, D, v_forward, v_shift, WRSS, cfgVars, gridVars, i, j,
                    WRSS_best, best_model, bestVars, boxVars, selected_gnss, projVars, fault_uv, first_run >>

\* profile half-lengths (km) the user enters
HalfLengthValues == {1, 50}

BoxCell(hl) ==
    /\ pc = "box"
    /\ half_length' = F(hl)
    /\ prof_dx' = NpSin(NpRadians(StrikeMinus90(fault_strike)))
    /\ prof_dy' = NpCos(NpRadians(StrikeMinus90(fault_strike)))
    /\ LET ox == FMul(FMul(half_length', F(1000)), prof_dx')
           oy == FMul(FMul(half_length', F(1000)), prof_dy')
       IN  box_vertices_utm' =
              << << FSub(fault_vertex_utm1[1], ox), FSub(fault_vertex_utm1[2], oy) >>,
                 << FAdd(fault_vertex_utm1[1], ox), FAdd(fault_vertex_utm1[2], oy) >>,
                 << FAdd(fault_vertex_utm2[1], ox), FAdd(fault_vertex_utm2[2], oy) >>,
                 << FSub(fault_vertex_utm2[1], ox), FSub(fault_vertex_utm2[2], oy) >> >>
    /\ prof_vertices_utm' =
          << << NpMean(<< box_vertices_utm'[1][1], box_vertices_utm'[4][1] >>),
                NpMean(<< box_vertices_utm'[1][2], box_vertices_utm'[4][2] >>) >>,
             << NpMean(<< box_vertices_utm'[2][1], box_vertices_utm'[3][1] >>),
                NpMean(<< box_vertices_utm'[2][2], box_vertices_utm'[3][2] >>) >> >>
    /\ pc' = "project"
    /\ UNCHANGED << err, obsVars, s, D, v_forward, v_shift, WRSS, cfgVars, gridVars, i, j,
                    WRSS_best, best_model, bestVars, faultVars, selected_gnss, projVars, fault_uv, first_run >>

\* the longitude the projection cell passes on: selected_gnss[:,0]-360
ShiftedLongitude(row) == FSub(row.lon, F(360))

ProjectCell ==
    /\ pc = "project"
    /\ IF \E kk \in 1..Len(selected_gnss) :
             ~UtmInRange(selected_gnss[kk].lat, ShiftedLongitude(selected_gnss[kk]))
       THEN \* utm.from_latlon raises OutOfRangeError
            /\ pc' = "error" /\ err' = "OutOfRangeError"
            /\ UNCHANGED projVars
       ELSE /\ selected_gnss_utm' =
                  << [kk \in 1..Len(selected_gnss) |->
                         UtmFromLatLon(selected_gnss[kk].lat, ShiftedLongitude(selected_gnss[kk]))[1]],
                     [kk \in 1..Len(selected_gnss) |->
                         UtmFromLatLon(selected_gnss[kk].lat, ShiftedLongitude(selected_gnss[kk]))[2]] >>
            /\ profile_origin_utm' =
                  << NpMean(<< prof_vertices_utm[1][1], prof_vertices_utm[2][1] >>),
                     NpMean(<< prof_vertices_utm[1][2], prof_vertices_utm[2][2] >>) >>
            /\ gnss_position' =
                  [kk \in 1..Len(selected_gnss) |->
                      << FSub(selected_gnss_utm'[1][kk], profile_origin_utm'[1]),
                         FSub(selected_gnss_utm'[2][kk], profile_origin_utm'[2]) >>]
            /\ prof_uv' = << prof_dx, prof_dy >>
            /\ pc' = "xdata" /\ err' = err
    /\ UNCHANGED << obsVars, s, D, v_forward, v_shift, WRSS, cfgVars, gridVars, i, j,
                    WRSS_best, best_model, bestVars, faultVars, boxVars, selected_gnss, fault_uv,
                    first_run >>

XDataCell ==
    /\ pc = "xdata"
    /\ x_data' = [kk \in 1..Len(gnss_position) |-> FDiv(Dot2(gnss_position[kk], prof_uv), F(1000))]
    /\ pc' = "projected"
    /\ UNCHANGED << err, v_data, v_err, s, D, v_forward, v_shift, WRSS, cfgVars, gridVars, i, j,
                    WRSS_best, best_model, bestVars, geomVars, first_run >>

\* slip: the errors of both components added up whatever the direction
ProjectedErrorUnweighted(row, uv) == NpSqrt(FAdd(FSq(row.se), FSq(row.sn)))

\* np.sqrt((selected_gnss[:,4]*fault_uv[0])**2+(selected_gnss[:,5]*fault_uv[1])**2), one row
ProjectedError(row, uv) == NpSqrt(FAdd(FSq(FMul(row.se, uv[1])), FSq(FMul(row.sn, uv[2]))))

\* selected_gnss[:,[2,3]].dot(fault_uv), one row
ProjectedVelocity(row, uv) == Dot2(<< row.ve, row.vn >>, uv)

VelocityCell ==
    /\ pc = "projected"
    /\ fault_uv' = << fault_dx, fault_dy >>
    /\ v_data' = [kk \in 1..Len(selected_gnss) |-> ProjectedVelocity(selected_gnss[kk], fault_uv')]
    /\ v_err' = [kk \in 1..Len(selected_gnss) |-> ProjectedError(selected_gnss[kk], fault_uv')]
    /\ pc' = "velocity"
    /\ UNCHANGED << err, x_data, s, D, v_forward, v_shift, WRSS, cfgVars, gridVars, i, j,
                    WRSS_best, best_model, bestVars, faultVars, boxVars, selected_gnss, projVars,
                    first_run >>

\* one row of selected_gnss.velo: columns 0..5 are longitude, latitude, east and
\* north velocity, east and north velocity error
GnssRow(lon, lat, ve, vn, se, sn) ==
    [lon |-> lon, lat |-> lat, ve |-> ve, vn |-> vn, se |-> se, sn |-> sn]

\* station sites of the velocity file, as (longitude, latitude); the file
\* gives longitudes in [0, 360), the last site is one given in [-180, 180)
StationSites ==
    { GnssRow(F(241), F(32), F(3), F(4), Fin(1, 10), Fin(1, 5)),
      GnssRow(F(244), F(36), F(3), F(4), Fin(1, 10), Fin(1, 5)),
      GnssRow(F(245), F(35), F(3), F(4), Fin(1, 10), Fin(1, 5)),
      GnssRow(Fin(485, 2), F(34), F(3), F(4), Fin(1, 10), Fin(1, 5)),
      GnssRow(F(243), Fin(67, 2), F(3), F(4), Fin(1, 10), Fin(1, 5)),
      GnssRow(F(242), F(33), F(3), F(4), Fin(1, 10), Fin(1, 5)),
      GnssRow(F(-119), F(32), F(3), F(4), Fin(1, 10), Fin(1, 5)) }

InitGeom ==
    /\ pc = "fault"
    /\ \E n \in 1..MaxStations : selected_gnss \in SeqsOf(StationSites, n)
    /\ x_data = << >> /\ v_data = << >> /\ v_err = << >>
    /\ InversionUnset
    /\ GeomUnset

NextGeom ==
    \/ \E fault_vertices_ll \in FaultVerticesLL : FaultCell(fault_vertices_ll)
    \/ \E hl \in HalfLengthValues : BoxCell(hl)
    \/ ProjectCell
    \/ XDataCell
    \/ VelocityCell

SpecGeom == InitGeom /\ [][NextGeom]_vars

\* rows of one site that differ in their velocity columns
VelocityRows ==
    { GnssRow(F(242), F(33), F(3), F(4), Fin(1, 10), Fin(1, 5)),
      GnssRow(F(242), F(33), F(3), F(0), Fin(1, 10), Fin(2, 5)),
      GnssRow(F(242), F(33), F(-1), F(4), Fin(3, 10), Fin(1, 5)),
      GnssRow(F(-118), F(33), F(3), F(4), Fin(1, 10), Fin(1, 5)) }

InitVelocity ==
    /\ pc = "fault"
    /\ \E n \in 1..MaxStations : selected_gnss \in SeqsOf(VelocityRows, n)
    /\ x_data = << >> /\ v_data = << >> /\ v_err = << >>
    /\ InversionUnset
    /\ GeomUnset

SpecVelocity == InitVelocity /\ [][NextGeom]_vars

(***************************************************************************)
(* Derived notions used by the properties                                   *)
(***************************************************************************)
\* number of cells of the penalty surface the loop has written so far
\* (i stays 0 until the set-up half of the grid-search cell has completed)
CellsEvaluated ==
    IF i = 0 THEN 0
    ELSE IF pc = "loop" THEN (i - 1) * n_s + (j - 1)
    ELSE n_D * n_s

\* index pair of the cell the loop wrote last
LastCell ==
    IF pc = "loop"
    THEN (IF j > 1 THEN << i, j - 1 >> ELSE << i - 1, n_s >>)
    ELSE << i, j >>

\* the trial-and-error cell has just evaluated v_forward and WRSS
AfterTrial == pc = "record"

\* the residual vector the last penalty evaluation weighted
CurrentResidual ==
    IF AfterTrial THEN VecSub(v_data, v_forward)
    ELSE VecSubScalar(VecSub(v_data, v_forward), v_shift)

AllFinite(sq) == \A kk \in 1..Len(sq) : IsFin(sq[kk])

AllPositive(sq) == \A kk \in 1..Len(sq) : IsFin(sq[kk]) /\ sq[kk].n > 0

\* the depth range of the grid is one the locking depth may take
ValidDepthRange == IsFin(D_min) /\ D_min.n > 0 /\ D_step.n > 0

\* station kk's summand in the penalty computed from resid and verr
StationTerm(resid, verr, kk) == FMul(VecMat(resid, WeightMatrix(verr))[kk], resid[kk])

\* the error array with station kk's error raised by one unit
RaisedError(verr, kk) == [verr EXCEPT ![kk] = FAdd(verr[kk], F(1))]

(***************************************************************************)
(* C1: in the penalty the weight of a station is 1/sigma^2: for every       *)
(* station with a nonzero residual, raising that station's error (all else  *)
(* unchanged) lowers its contribution to the penalty, in the trial-and-error*)
(* evaluation and in every grid-search cell.                                *)
(***************************************************************************)
C1_LargerErrorLowersContribution ==
    (AfterTrial \/ CellsEvaluated > 0) =>
        \A kk \in 1..Len(x_data) :
            (IsFin(CurrentResidual[kk]) /\ CurrentResidual[kk].n # 0) =>
                FLt(StationTerm(CurrentResidual, RaisedError(v_err, kk), kk),
                    StationTerm(CurrentResidual, v_err, kk))

(***************************************************************************)
(* C2: when the best-model cell has completed, (s_best, D_best) is a grid   *)
(* point whose penalty equals WRSS_best, and WRSS_best is less than or      *)
(* equal to the penalty stored in every cell of the grid.                   *)
(***************************************************************************)
C2_BestIsGridMinimum ==
    pc = "done" =>
        /\ \E r \in 1..n_D, c \in 1..n_s :
              /\ s_best = sv[r][c]
              /\ D_best = Dv[r][c]
              /\ FEq(WRSS[r][c], WRSS_best)
        /\ \A r \in 1..n_D, c \in 1..n_s : FLe(WRSS_best, WRSS[r][c])

\* a completed selection on a grid of several cells with unequal penalties,
\* the minimum not in the first cell
C2_Witness ==
    /\ pc = "done"
    /\ n_D > 1 /\ n_s > 1
    /\ best_model[1] # << 1, 1 >>
    /\ \E r \in 1..n_D, c \in 1..n_s : FLt(WRSS_best, WRSS[r][c])

(***************************************************************************)
(* C3: when several grid cells share the minimum penalty, the selection     *)
(* still returns exactly one (s, D) pair, the tied cell that comes first in *)
(* row-major order.                                                         *)
(***************************************************************************)
C3_TieReturnsFirstCell ==
    (Len(best_model) >= 2 /\ ValidDepthRange /\ Len(x_data) > 0) =>
        /\ pc = "done"
        /\ s_best = sv[best_model[1][1]][best_model[1][2]]
        /\ D_best = Dv[best_model[1][1]][best_model[1][2]]

(***************************************************************************)
(* C4: for every grid cell the offset the loop uses (the mean residual) is  *)
(* least-squares optimal: no other offset gives a smaller value of the      *)
(* penalty the cell computes, whatever the station errors.                  *)
(***************************************************************************)
\* the offset that minimises sum(v_err^2 * (r - c)^2): the v_err^2-weighted mean
WeightedMeanShift(vdata, vf, verr) ==
    FDiv(Dot(VecSub(vdata, vf), [kk \in 1..Len(verr) |-> FSq(verr[kk])]),
         SeqSum([kk \in 1..Len(verr) |-> FSq(verr[kk])]))

OffsetCandidates ==
    { WeightedMeanShift(v_data, v_forward, v_err),
      FAdd(v_shift, Fin(1, 4)), FSub(v_shift, Fin(1, 4)) }

C4_MeanShiftIsOptimal ==
    (CellsEvaluated > 0 /\ pc \in {"loop", "select"} /\ ValidDepthRange) =>
        \A c \in OffsetCandidates :
            FLe(CellPenalty(v_data, v_forward, v_shift, v_err),
                CellPenalty(v_data, v_forward, c, v_err))

(***************************************************************************)
(* C5: a grid configuration with D_min <= 0 or D_step <= 0 is rejected      *)
(* before any cell is evaluated: no penalty is computed and no best model   *)
(* is returned.                                                             *)
(***************************************************************************)
C5_BadDepthRangeRejected ==
    (IsFin(D_min) /\ (D_min.n <= 0 \/ D_step.n <= 0)) =>
        /\ CellsEvaluated = 0
        /\ pc # "done"
        /\ pc # "loop"

(***************************************************************************)
(* C6: with an empty station set the grid search fails instead of filling   *)
(* the penalty surface and selecting a best model.                          *)
(***************************************************************************)
C6_EmptyStationsRejected ==
    (Len(x_data) = 0 /\ (IsFin(D_min) => ValidDepthRange)) =>
        /\ CellsEvaluated = 0
        /\ pc # "done"

(***************************************************************************)
(* C7: evaluating the forward model with locking depth D = 0 fails at the   *)
(* evaluation; it never leaves velocities (numeric, infinite or nan) that   *)
(* the misfit or the grid search go on to use.                              *)
(***************************************************************************)
EvaluatedAtZeroDepth ==
    /\ Len(x_data) > 0
    /\ \/ AfterTrial /\ D = F(0)
       \/ CellsEvaluated > 0 /\ pc \in {"loop", "select"}
             /\ Dv[LastCell[1]][LastCell[2]] = F(0)

C7_ZeroDepthIsDomainError == ~EvaluatedAtZeroDepth

(***************************************************************************)
(* C10: for errors that are all positive the penalty is nonnegative, and is *)
(* 0 exactly when the modelled velocity equals the observed velocity at     *)
(* every station.                                                           *)
(***************************************************************************)
C10_PenaltyNonnegativeZeroIffExact ==
    (AfterTrial /\ AllFinite(v_forward) /\ AllPositive(v_err)) =>
        /\ FLe(F(0), WRSS)
        /\ (WRSS = F(0)) <=> (\A kk \in 1..Len(x_data) : v_forward[kk] = v_data[kk])

\* an exact fit at two stations with different velocities
C10_Witness ==
    /\ AfterTrial
    /\ Len(x_data) >= 2
    /\ AllPositive(v_err)
    /\ v_forward = v_data
    /\ v_data[1] # v_data[2]
    /\ WRSS = F(0)

(***************************************************************************)
(* C9: grid search recovers known parameters: when the observations are the *)
(* forward model at a grid point (s0, D0) plus a constant offset, with zero *)
(* noise at several distinct distances and positive errors, the selection   *)
(* completes and returns (s, D) within one grid step of (s0, D0) with a     *)
(* minimum penalty of 0.                                                    *)
(***************************************************************************)
\* the observations are the forward model of cell (r, c) plus one constant
ExactAtCell(r, c) ==
    \E kk \in 1..Len(x_data) :
        VecSub(v_data, ForwardModel(x_data, sv[r][c], Dv[r][c]))
            = [m \in 1..Len(x_data) |-> FSub(v_data[kk], ForwardModel(x_data, sv[r][c], Dv[r][c])[kk])]

DistinctDistances == Cardinality({x_data[kk] : kk \in 1..Len(x_data)})

SelectionRan == pc \in {"done", "error"} /\ i >= 1

C9_RecoversKnownParameters ==
    ( /\ SelectionRan
      /\ ValidDepthRange
      /\ AllPositive(v_err)
      /\ DistinctDistances >= 3 )
    => \A r \in 1..n_D, c \in 1..n_s :
          ExactAtCell(r, c)
          => /\ pc = "done"
             /\ WRSS_best = F(0)
             /\ FLe(FAbs(FSub(s_best, sv[r][c])), s_step)
             /\ FLe(FAbs(FSub(D_best, Dv[r][c])), D_step)

\* a completed search over a grid of several slip rates and depths whose
\* observations were generated at a cell other than the first one
C9_Witness ==
    /\ pc = "done"
    /\ ValidDepthRange
    /\ n_s > 1 /\ n_D > 1
    /\ DistinctDistances >= 3
    /\ \E r \in 2..n_D, c \in 2..n_s :
          ExactAtCell(r, c) /\ s_best = sv[r][c] /\ D_best = Dv[r][c]
    /\ \E r \in 1..n_D, c \in 1..n_s : FLt(F(0), WRSS[r][c])

(***************************************************************************)
(* C8: a station located exactly at either fault end point gets an          *)
(* along-profile distance x_data whose magnitude is half the fault length,  *)
(* with opposite signs for the two end points; a station at the profile     *)
(* origin gets distance 0.                                                  *)
(***************************************************************************)
StationAt(kk, point) ==
    /\ selected_gnss_utm[1][kk] = point[1]
    /\ selected_gnss_utm[2][kk] = point[2]

\* half the fault length, in km like x_data
HalfFaultLengthKm == FDiv(FDiv(fault_length, F(2)), F(1000))

C8_EndpointAtHalfFaultLength ==
    pc = "projected" =>
        \A kk \in 1..Len(x_data) :
            /\ StationAt(kk, fault_vertex_utm1) => FAbs(x_data[kk]) = HalfFaultLengthKm
            /\ StationAt(kk, fault_vertex_utm2) => FAbs(x_data[kk]) = HalfFaultLengthKm
            /\ \A mm \in 1..Len(x_data) :
                  (StationAt(kk, fault_vertex_utm1) /\ StationAt(mm, fault_vertex_utm2))
                      => x_data[kk] = FNeg(x_data[mm])
            /\ StationAt(kk, profile_origin_utm) => x_data[kk] = F(0)

(***************************************************************************)
(* C8 as amended: the profile is perpendicular to the fault, so a station   *)
(* located exactly at either fault end point gets x_data = 0, and so does a *)
(* station at the profile origin.                                           *)
(***************************************************************************)
C8_EndpointAtZero ==
    pc = "projected" =>
        \A kk \in 1..Len(x_data) :
            /\ StationAt(kk, fault_vertex_utm1) => x_data[kk] = F(0)
            /\ StationAt(kk, fault_vertex_utm2) => x_data[kk] = F(0)
            /\ StationAt(kk, profile_origin_utm) => x_data[kk] = F(0)

\* one station at a fault end point, another one off the fault line
C8_Witness ==
    /\ pc = "projected"
    /\ Len(x_data) >= 2
    /\ \E kk \in 1..Len(x_data) :
          StationAt(kk, fault_vertex_utm1) \/ StationAt(kk, fault_vertex_utm2)
    /\ \E kk \in 1..Len(x_data) : x_data[kk] # F(0)

(***************************************************************************)
(* C11: the offset returned with the best model, v_shift_best, is the mean  *)
(* residual of the returned (s_best, D_best), the same offset the loop used *)
(* when it computed that cell's penalty, and not the offset v_shift left by *)
(* the last cell the loop visited.                                          *)
(***************************************************************************)
\* v_data - (s_best/pi)*atan(x_data/D_best)
BestResidual == VecSub(v_data, ForwardModel(x_data, s_best, D_best))

C11_OffsetBelongsToBestModel ==
    pc = "done" =>
        /\ v_shift_best = NpMean(BestResidual)
        /\ WRSS[best_model[1][1]][best_model[1][2]] =
              Penalty(VecSubScalar(BestResidual, v_shift_best), v_err)

\* the best cell is not the last one visited and the loop's last offset differs
C11_Witness ==
    /\ pc = "done"
    /\ best_model[1] # << n_D, n_s >>
    /\ v_shift_best # v_shift

(***************************************************************************)
(* C12: with an axis-aligned unit vector only the aligned component is      *)
(* used: for (1,0) the projected velocity is the east velocity and the      *)
(* propagated error is the east error, whatever the north velocity and      *)
(* north error are; symmetrically for (0,1).                                *)
(***************************************************************************)
C12_AxisAlignedUsesAlignedComponent ==
    pc = "velocity" =>
        \A kk \in 1..Len(selected_gnss) :
            /\ fault_uv = << F(1), F(0) >> =>
                  (v_data[kk] = selected_gnss[kk].ve /\ v_err[kk] = selected_gnss[kk].se)
            /\ fault_uv = << F(0), F(1) >> =>
                  (v_data[kk] = selected_gnss[kk].vn /\ v_err[kk] = selected_gnss[kk].sn)

\* two stations with velocity (3, 4) and (3, 0), errors (0.1, 0.2) and (0.1, 0.4),
\* projected on (1, 0): both give 3 and 0.1
C12_Witness ==
    /\ pc = "velocity"
    /\ fault_uv = << F(1), F(0) >>
    /\ Len(selected_gnss) = 2
    /\ << selected_gnss[1].ve, selected_gnss[1].vn >> = << F(3), F(4) >>
    /\ << selected_gnss[1].se, selected_gnss[1].sn >> = << Fin(1, 10), Fin(1, 5) >>
    /\ selected_gnss[2].vn = F(0) /\ selected_gnss[2].sn = Fin(2, 5)
    /\ v_data = << F(3), F(3) >>
    /\ v_err = << Fin(1, 10), Fin(1, 10) >>

(***************************************************************************)
(* C13: before the coordinate conversion every station longitude is wrapped *)
(* into [-180, 180): for an input longitude given in [-180, 180) or in      *)
(* [0, 360) the value passed to the conversion lies in [-180, 180) and      *)
(* denotes the same meridian, and only a longitude that cannot be wrapped   *)
(* is reported as an error.                                                 *)
(***************************************************************************)
ProjectionAttempted == pc \in {"xdata", "projected", "velocity", "error"}

\* the input longitude is in one of the two usual conventions
InEitherConvention(lon) == FLe(F(-180), lon) /\ FLt(lon, F(360))

\* both longitudes are whole or half degrees here: equal modulo 360
SameMeridian(a, b) == (2 * a.n * b.d - 2 * b.n * a.d) % (720 * a.d * b.d) = 0

C13_LongitudeWrappedIntoRange ==
    ProjectionAttempted =>
        \A kk \in 1..Len(selected_gnss) :
            InEitherConvention(selected_gnss[kk].lon) =>
                /\ FLe(F(-180), ShiftedLongitude(selected_gnss[kk]))
                /\ FLt(ShiftedLongitude(selected_gnss[kk]), F(180))
                /\ SameMeridian(ShiftedLongitude(selected_gnss[kk]), selected_gnss[kk].lon)
                /\ err # "OutOfRangeError"

(***************************************************************************)
(* C14: for D > 0 the forward model is odd in x about the offset,           *)
(* v(-x) - offset = -(v(x) - offset), and its value at x = 0 is exactly the *)
(* offset.                                                                  *)
(***************************************************************************)
C14_ForwardModelOddAboutOffset ==
    (AfterTrial /\ Sign(D) > 0) =>
        \A kk \in 1..Len(x_data) :
            /\ x_data[kk] = F(0) => v_forward[kk] = v_shift
            /\ \A mm \in 1..Len(x_data) :
                  x_data[mm] = FNeg(x_data[kk]) =>
                      FSub(v_forward[mm], v_shift) = FNeg(FSub(v_forward[kk], v_shift))

\* stations at -x and x, x # 0, with a nonzero offset and distinct model values
C14_Witness ==
    /\ AfterTrial /\ Sign(D) > 0
    /\ Len(x_data) = 2
    /\ x_data[1] = FNeg(x_data[2]) /\ x_data[1] # F(0)
    /\ v_shift # F(0)
    /\ v_forward[1] # v_forward[2]

(***************************************************************************)
(* C15: running the grid search and the best-model selection twice on the   *)
(* same observations and the same grid configuration yields identical       *)
(* outputs: the same penalty surface, the same (s_best, D_best), the same   *)
(* offset and the same minimum penalty.                                     *)
(***************************************************************************)
C15_RerunGivesSameOutputs ==
    (first_run # << >> /\ RunFinished) => RunOutputs = first_run

\* a second run that returned a best model from a grid of several cells
C15_Witness ==
    /\ first_run # << >>
    /\ pc = "done"
    /\ n_s * n_D > 1
    /\ first_run.outcome = << "done", "none" >>
    /\ first_run.WRSS = WRSS

(***************************************************************************)
(* C16: for s_min <= s_max, D_min <= D_max and positive steps the number of *)
(* slip rates tested is ceil((s_max - s_min)/s_step) + 1 and the number of  *)
(* locking depths is ceil((D_max - D_min)/D_step) + 1, also when the range  *)
(* is not a whole multiple of the step, and the penalty surface has that    *)
(* many columns and rows.                                                   *)
(***************************************************************************)
\* ceiling of a finite value
FCeil(a) == -((-a.n) \div a.d)

\* the setup has run on ascending ranges with positive steps
AscendingRangesSetUp ==
    /\ IsFin(s_step) /\ IsFin(D_step)
    /\ Sign(s_step) > 0 /\ Sign(D_step) > 0
    /\ FLe(s_min, s_max) /\ FLe(D_min, D_max)

C16_GridSizeIsCeilingPlusOne ==
    AscendingRangesSetUp =>
        /\ n_s = FCeil(FDiv(FSub(s_max, s_min), s_step)) + 1
        /\ n_D = FCeil(FDiv(FSub(D_max, D_min), D_step)) + 1
        /\ Len(WRSS) = n_D
        /\ \A r \in 1..n_D : Len(WRSS[r]) = n_s

(***************************************************************************)
(* C17: the grid-search loop terminates after writing every one of the      *)
(* n_s * n_D cells of the penalty surface exactly once, in order, with no   *)
(* cell skipped and no early exit, and the minimum is taken only after the  *)
(* last cell has been written.                                              *)
(***************************************************************************)
\* position of a cell in the order of the nested loops
VisitRank(r, c) == (r - 1) * n_s + c

\* one iteration writes the current cell, leaves the others, and moves to the
\* next cell in order, or leaves the loop after the last one
LoopStepInOrder ==
    pc = "loop" =>
        /\ WRSS'[i][j] = CellPenalty(v_data, v_forward', v_shift', v_err)
        /\ \A r \in 1..n_D, c \in 1..n_s :
              << r, c >> # << i, j >> => WRSS'[r][c] = WRSS[r][c]
        /\ IF << i, j >> = << n_D, n_s >>
           THEN pc' = "select"
           ELSE pc' = "loop" /\ VisitRank(i', j') = VisitRank(i, j) + 1

\* the loop is entered at the first cell of a zeroed surface
LoopEnteredAtFirstCell ==
    (pc # "loop" /\ pc' = "loop") => (i' = 1 /\ j' = 1 /\ WRSS' = NpZeros(n_D', n_s'))

\* the minimum is taken after the last cell
MinimumAfterLastCell ==
    (pc = "select" /\ pc' = "done") => << i, j >> = << n_D, n_s >>

C17_LoopWritesEveryCellOnceThenSelects ==
    /\ [][LoopStepInOrder /\ LoopEnteredAtFirstCell /\ MinimumAfterLastCell]_vars
    /\ (pc = "loop" ~> RunFinished)

\* the loop has ended on a grid of several rows and columns
C17_Witness ==
    /\ pc = "select"
    /\ n_D > 1 /\ n_s > 1
    /\ << i, j >> = << n_D, n_s >>
    /\ \E r \in 1..n_D, c \in 1..n_s : WRSS[r][c] # F(0)

(***************************************************************************)
(* C18: each cell's penalty depends only on that cell's (s, D) and on the   *)
(* observation arrays, never on v_forward, v_shift or WRSS entries left by  *)
(* cells evaluated earlier: the cells evaluated in another order, by        *)
(* workers with temporaries of their own, give the same penalty surface and *)
(* the same best model, and the loop leaves x_data, v_data, v_err unchanged.*)
(***************************************************************************)
\* the penalty of cell (r, c) as a function of the cell and the observations
PenaltyOfCell(r, c) ==
    Penalty(VecSubScalar(VecSub(v_data, ForwardModel(x_data, sv[r][c], Dv[r][c])),
                         NpMean(VecSub(v_data, ForwardModel(x_data, sv[r][c], Dv[r][c])))),
            v_err)

\* the cells the notebook's loop has written so far hold that function's value
WrittenCellsArePure ==
    pc = "loop" =>
        \A r \in 1..n_D, c \in 1..n_s :
            VisitRank(r, c) < VisitRank(i, j) => WRSS[r][c] = PenaltyOfCell(r, c)

\* the reordered evaluation ends with the outputs of the notebook's loop
ReorderedRunAgrees ==
    (first_run # << >> /\ RunFinished) =>
        /\ WRSS = first_run.WRSS
        /\ WRSS_best = first_run.WRSS_best
        /\ << s_best, D_best, v_shift_best >> =
              << first_run.s_best, first_run.D_best, first_run.v_shift_best >>
        /\ << pc, err >> = first_run.outcome

LoopLeavesObservations == (pc \in {"loop"} \cup Orders) => UNCHANGED obsVars

FaultMidpoint ==
    << FDiv(FAdd(fault_vertex_utm1[1], fault_vertex_utm2[1]), F(2)),
       FDiv(FAdd(fault_vertex_utm1[2], fault_vertex_utm2[2]), F(2)) >>

ProjectionDone == pc \in {"xdata", "projected", "velocity"}

C19_OriginIsMidpointProfilePerpendicular ==
    ProjectionDone =>
        /\ profile_origin_utm = FaultMidpoint
        /\ Dot2(prof_uv, << fault_dx, fault_dy >>) = F(0)
        /\ Dot2(prof_uv, prof_uv) = F(1)

\* an oblique fault with the notebook's half-length: the profile vertices lie
\* off the fault and the origin between them
C19_Witness ==
    /\ ProjectionDone
    /\ half_length = F(50)
    /\ fault_dx # F(0) /\ fault_dy # F(0)
    /\ prof_vertices_utm[1] # prof_vertices_utm[2]
    /\ profile_origin_utm # fault_vertex_utm1

=============================================================================
